---- MODULE Spec2Model ----
(***************************************************************************)
(* Model of the Reader subsystem of data-viz (src/src/data_reader.rs):     *)
(* the consumer-side Reader (process, start_reading, stop_reading,         *)
(* start_logging, stop_logging), the worker thread reader_main, the three  *)
(* mpsc channels that couple them, and the line parser                     *)
(* SerialData::try_from.                                                   *)
(*                                                                         *)
(* The consumer and every worker are separate threads.  Each step of the   *)
(* model is one channel operation (send, try_recv, drop of an endpoint)    *)
(* or one blocking read together with the thread-local code around it, so  *)
(* that every interleaving of the threads' channel operations is a         *)
(* behaviour of the model.                                                 *)
(***************************************************************************)
EXTENDS Integers, Sequences, FiniteSets, TLC

VARIABLES
    comm,       \* Reader.comm: 0 is None, w > 0 is Some(endpoints of session w)
    status,     \* Reader.status
    labels,     \* Reader.labels
    data,       \* Reader.data: label -> sequence of <<time, value>>
    cpc,        \* consumer thread: "idle" (between calls), "frames", "status"
    ret,        \* process(): the local `ret`
    result,     \* what the last process() call that returned has returned
    wpc,        \* per session: position of the worker thread, "none" without one
    err_retry,  \* per session: reader_main's err_retry
    logger,     \* per session: reader_main's logger is Some
    read_res,   \* per session: what this iteration's reader.next_frame() returned
    cmdQ,       \* per session: command channel (consumer -> worker)
    frameQ,     \* per session: frame channel (worker -> consumer)
    statusQ,    \* per session: status channel (worker -> consumer)
    logfile,    \* the log file: None while it does not exist, else Some(rows)
    reads,      \* lines the device has delivered so far (all sessions)
    cmds,       \* Stop commands the consumer has sent so far (all sessions)
    logcmds,    \* logging commands the consumer has sent so far (all sessions)
    input,      \* SerialData::try_from: the line it is called on
    output,     \* SerialData::try_from: None before the call, Some(record) after
    labelled    \* history: process() has met a Labels record in the session comm

readerVars == <<comm, status, labels, data>>
consumerVars == <<cpc, ret, result>>
workerVars == <<wpc, err_retry, logger, read_res, logfile>>
chanVars == <<cmdQ, frameQ, statusQ>>
parserVars == <<input, output>>
envVars == <<reads, cmds, logcmds, input, output, labelled>>
vars == <<comm, status, labels, data, cpc, ret, result, wpc, err_retry, logger,
          read_res, cmdQ, frameQ, statusQ, logfile, reads, cmds, logcmds, input,
          output, labelled>>

(***************************************************************************)
(* Bounds of the model.                                                    *)
(***************************************************************************)
MaxSessions == 2    \* sessions one Reader starts
MaxReads == 1       \* lines the device delivers (Spec)
MaxDataReads == 3   \* lines the device delivers (DataSpec)
MaxCmds == 1        \* Stop commands the consumer sends
MaxLogCmds == 2     \* logging commands the consumer sends (LogSpec)
MaxLineLen == 4     \* length of the lines enumerated for the parser (ParseSpec)

Sessions == 1..MaxSessions

(***************************************************************************)
(* Program constants.                                                      *)
(***************************************************************************)
ErrThreshold == 3   \* `if err_retry > 3`
PollDelayMs == 100  \* Duration::from_millis(100)

I32Min == (0 - 2147483647) - 1
I32Max == 2147483647

(***************************************************************************)
(* Values.                                                                 *)
(***************************************************************************)
\* Option<T>: <<>> is None, <<x>> is Some(x).
None == <<>>
Some(x) == <<x>>

\* enum ReaderStatus
Running == [tag |-> "Running", msg |-> None]
Logging == [tag |-> "Logging", msg |-> None]
LogErr(m) == [tag |-> "LogErr", msg |-> Some(m)]
Stopped(reason) == [tag |-> "Stopped", msg |-> reason]

DefaultStatus == Stopped(None)
Disconnected == Stopped(Some("Reader Disconnected unexpectedly"))

\* enum SerialData
Labels(s) == [tag |-> "Labels", val |-> s]
Values(v) == [tag |-> "Values", val |-> v]
Other(s) == [tag |-> "Other", val |-> s]

\* enum Commands; the path of StartLogging is one of Paths
CmdStop == [tag |-> "Stop", path |-> ""]
CmdStopLogger == [tag |-> "StopLogger", path |-> ""]
CmdStartLogging(p) == [tag |-> "StartLogging", path |-> p]

\* Paths a log may be started at: one the file system lets the worker
\* create, one it does not.
Paths == {"log.csv", "/ro/log.csv"}
Creatable(p) == p = "log.csv"

\* Reader::running
running == status.tag /= "Stopped"

\* Reader::logging
logging == status.tag = "Logging"

(***************************************************************************)
(* SerialData::try_from.  A line is a sequence of characters.              *)
(***************************************************************************)
Digits == {"0", "1", "2", "3", "4", "5", "6", "7", "8", "9"}

DigitVal(c) ==
    CASE c = "0" -> 0 [] c = "1" -> 1 [] c = "2" -> 2 [] c = "3" -> 3
      [] c = "4" -> 4 [] c = "5" -> 5 [] c = "6" -> 6 [] c = "7" -> 7
      [] c = "8" -> 8 [] c = "9" -> 9

\* s starts with the sequence p
StartsWith(s, p) == Len(s) >= Len(p) /\ SubSeq(s, 1, Len(p)) = p

\* s without its first n characters
Drop(s, n) == SubSeq(s, n + 1, Len(s))

\* str::strip_suffix: None, or Some(s without the suffix)
StripSuffix(s, suf) ==
    IF Len(s) >= Len(suf) /\ SubSeq(s, Len(s) - Len(suf) + 1, Len(s)) = suf
    THEN Some(SubSeq(s, 1, Len(s) - Len(suf)))
    ELSE None

\* str::split(sep).collect(): the pieces of s between occurrences of sep,
\* found left to right; always at least one piece.
RECURSIVE SplitFrom(_, _, _)
SplitFrom(s, sep, cur) ==
    IF s = <<>> THEN <<cur>>
    ELSE IF StartsWith(s, sep)
         THEN <<cur>> \o SplitFrom(Drop(s, Len(sep)), sep, <<>>)
         ELSE SplitFrom(Tail(s), sep, Append(cur, Head(s)))

\* (mutation of Split: an empty string has no pieces)
SplitNonEmpty(s, sep) == IF s = <<>> THEN <<>> ELSE SplitFrom(s, sep, <<>>)

Split(s, sep) == SplitFrom(s, sep, <<>>)

\* i32::checked_mul(10) then checked_add(d) / checked_sub(d): None on
\* overflow of the 32-bit accumulator
CeilDiv10(n) == (n \div 10) + (IF n % 10 = 0 THEN 0 ELSE 1)
CheckedStep(acc, d, positive) ==
    IF positive
    THEN IF acc > (I32Max - d) \div 10 THEN None ELSE Some(10 * acc + d)
    ELSE IF acc < CeilDiv10(I32Min + d) THEN None ELSE Some(10 * acc - d)

\* the digit loop of str::parse::<i32>: a positive number is accumulated
\* upwards, a negative one downwards
RECURSIVE DigitsValue(_, _, _)
DigitsValue(ds, acc, positive) ==
    IF ds = <<>> THEN Some(acc)
    ELSE IF Head(ds) \notin Digits THEN None
    ELSE LET nxt == CheckedStep(acc, DigitVal(Head(ds)), positive)
         IN  IF nxt = None THEN None ELSE DigitsValue(Tail(ds), nxt[1], positive)

\* str::parse::<i32>: None on failure; an optional sign, then one digit or
\* more, and the value within the range of i32.
ParseI32(tok) ==
    LET signed == tok /= <<>> /\ Head(tok) \in {"+", "-"}
        ds == IF signed THEN Tail(tok) ELSE tok
    IN  IF ds = <<>> THEN None
        ELSE DigitsValue(ds, 0, ~(signed /\ Head(tok) = "-"))

\* (mutation of ParseAll: a token that fails to parse is skipped)
RECURSIVE ParseAllLenient(_, _)
ParseAllLenient(toks, acc) ==
    IF toks = <<>> THEN Some(acc)
    ELSE LET i == ParseI32(Head(toks))
         IN  ParseAllLenient(Tail(toks), IF i = None THEN acc ELSE Append(acc, i[1]))

\* the loop over slice.split(" "): None as soon as a token fails to parse
RECURSIVE ParseAll(_, _)
ParseAll(toks, acc) ==
    IF toks = <<>> THEN Some(acc)
    ELSE LET i == ParseI32(Head(toks))
         IN  IF i = None THEN None ELSE ParseAll(Tail(toks), Append(acc, i[1]))

try_from(line) ==
    LET stripped == StripSuffix(line, <<"\r", "\n">>)
    IN  IF stripped = None THEN Other(line)
        ELSE LET slice == stripped[1]
             IN  IF StartsWith(slice, <<"#", "L", " ">>)
                 THEN Labels(Split(Drop(slice, 3), <<";", " ">>))
                 ELSE LET parsed == ParseAll(Split(slice, <<" ">>), <<>>)
                      IN  IF parsed = None THEN Other(slice)
                          ELSE Values(parsed[1])

\* Lines the device delivers in the model.
DeviceLines ==
    { <<"#", "L", " ", "a", ";", " ", "b", "\r", "\n">>,
      <<"#", "L", " ", "a", ";", " ", "a", "\r", "\n">>,
      <<"1", " ", "5", " ", "6", "\r", "\n">>,
      <<"2", " ", "7", " ", "8", "\r", "\n">>,
      <<"o", "k", "\r", "\n">> }

\* FrameReader::next_frame on a line the device delivered
next_frame(line) == try_from(line)

\* the records the worker makes of the lines of DeviceLines
DeviceFrames == {next_frame(line) : line \in DeviceLines}

\* The one line of a device that only ever names its sensor.
ProtocolLines == { <<"#", "L", " ", "a", "\r", "\n">> }

ProtocolFrames == {next_frame(line) : line \in ProtocolLines}

\* The lines of a device whose value rows do not all have one reading per
\* label: with the labels a and b, one row that matches, one that is short
\* and one that is long.
RowLines ==
    { <<"#", "L", " ", "a", ";", " ", "b", "\r", "\n">>,
      <<"1", " ", "5", " ", "6", "\r", "\n">>,
      <<"3", " ", "9", "\r", "\n">>,
      <<"4", " ", "1", " ", "2", " ", "3", "\r", "\n">> }

RowFrames == {next_frame(line) : line \in RowLines}

\* The lines the parser is called on: every line of up to MaxLineLen of the
\* characters that matter to it, bare or with a terminator, and the lines
\* at the limits of i32.
LineChars == {"#", "L", " ", ";", "7", "-", "+", "\r", "\n"}

RECURSIVE SeqsUpTo(_, _)
SeqsUpTo(S, n) ==
    IF n = 0 THEN {<<>>}
    ELSE LET shorter == SeqsUpTo(S, n - 1)
         IN  shorter \cup {Append(q, c) : q \in shorter, c \in S}

Terminators == {<<>>, <<"\n">>, <<"\r", "\n">>}

LimitLines ==
    { <<"2", "1", "4", "7", "4", "8", "3", "6", "4", "7", "\r", "\n">>,
      <<"2", "1", "4", "7", "4", "8", "3", "6", "4", "8", "\r", "\n">>,
      <<"-", "2", "1", "4", "7", "4", "8", "3", "6", "4", "8", "\r", "\n">>,
      <<"-", "2", "1", "4", "7", "4", "8", "3", "6", "4", "9", "\r", "\n">>,
      <<"0", "0", "0", "0", "0", "0", "0", "0", "0", "0", "0", "9", "\r", "\n">>,
      <<"1", " ", "9", "9", "9", "9", "9", "9", "9", "9", "9", "9", "\r", "\n">> }

ParseLines ==
    {body \o t : body \in SeqsUpTo(LineChars, MaxLineLen), t \in Terminators}
        \cup LimitLines \cup DeviceLines \cup RowLines

(***************************************************************************)
(* Channel endpoints.  The worker owns frame_tx, status_tx and command_rx  *)
(* until it drops them on its way out; the consumer owns command_tx,       *)
(* frame_rx and status_rx while comm is Some of the session.               *)
(***************************************************************************)
WorkerPcs ==
    {"none", "start", "cmd", "read", "release", "dropTx"}

\* the worker thread exists and still owns the device handle
OwnsDevice(w) == wpc[w] \in {"start", "cmd", "read", "release"}

CommandRxAlive(w) == wpc[w] \in {"start", "cmd", "read", "release"}
StatusTxAlive(w) == wpc[w] \in {"start", "cmd", "read", "release", "dropTx"}
FrameTxAlive(w) == wpc[w] \in {"start", "cmd", "read", "release", "dropTx"}
ReceiversAlive(w) == comm = w

\* Receiver::try_recv: a buffered message first, then Empty while the
\* sender lives and Disconnected once it is dropped.
TryRecv(q, senderAlive) ==
    IF q /= <<>> THEN [tag |-> "Ok", val |-> Head(q)]
    ELSE IF senderAlive THEN [tag |-> "Empty", val |-> None]
    ELSE [tag |-> "Disconnected", val |-> None]

(***************************************************************************)
(* Reader (the consumer thread).                                           *)
(***************************************************************************)
\* the value of `result` before any call has returned: neither None nor Some
NoCall == <<0, 0>>
EmptyMap == <<>>

AsF64(i) == i   \* i32 as f64 is exact: every i32 is representable

\* self.data.entry(label.to_owned()).or_default().push(pair)
PushPair(d, label, pair) ==
    IF label \in DOMAIN d
    THEN [d EXCEPT ![label] = Append(@, pair)]
    ELSE d @@ (label :> <<pair>>)

\* for (label, value) in self.labels.iter().zip(v.into_iter().skip(1))
RECURSIVE ZipPush(_, _, _, _)
ZipPush(d, ls, vs, time) ==
    IF ls = <<>> \/ vs = <<>> THEN d
    ELSE ZipPush(PushPair(d, Head(ls), <<time, AsF64(Head(vs))>>),
                 Tail(ls), Tail(vs), time)

\* (mutation of FoldValues: no skip(1), the timestamp is zipped as a reading)
FoldValuesNoSkip(d, ls, v) == ZipPush(d, ls, v, AsF64(v[1]))

\* (mutation of FoldValues: without labels the readings go to a series of
\* their own, named by the empty string)
FoldValuesUnlabelled(d, ls, v) ==
    ZipPush(d, IF ls = <<>> THEN << <<>> >> ELSE ls, Tail(v), AsF64(v[1]))

\* the arm Ok(SerialData::Values(v))
FoldValues(d, ls, v) == ZipPush(d, ls, Tail(v), AsF64(v[1]))

\* process(), entry: no session, return None; else enter the frame loop
process_begin ==
    /\ cpc = "idle"
    /\ IF comm = 0
       THEN /\ result' = None
            /\ UNCHANGED <<cpc, ret>>
       ELSE /\ cpc' = "frames"
            /\ ret' = None
            /\ UNCHANGED result
    /\ UNCHANGED <<readerVars, workerVars, chanVars, envVars>>

\* (mutation of FoldFrame: a line that is no record starts the data afresh)
FoldFrameClearing(f) ==
    CASE f.tag = "Labels" ->
          /\ labels' = f.val
          /\ data' = EmptyMap
      [] f.tag = "Values" ->
          /\ data' = FoldValues(data, labels, f.val)
          /\ UNCHANGED labels
      [] f.tag = "Other" ->
          /\ data' = EmptyMap
          /\ UNCHANGED labels

\* (mutation of FoldFrame: a Labels record replaces the labels and leaves
\* the data)
FoldFrameKeeping(f) ==
    CASE f.tag = "Labels" ->
          /\ labels' = f.val
          /\ UNCHANGED data
      [] f.tag = "Values" ->
          /\ data' = FoldValues(data, labels, f.val)
          /\ UNCHANGED labels
      [] f.tag = "Other" ->
          UNCHANGED <<labels, data>>

\* the arms of the frame loop for a received record
FoldFrame(f) ==
    CASE f.tag = "Labels" ->
          /\ labels' = f.val
          /\ data' = EmptyMap
      [] f.tag = "Values" ->
          /\ data' = FoldValues(data, labels, f.val)
          /\ UNCHANGED labels
      [] f.tag = "Other" ->
          UNCHANGED <<labels, data>>

\* process(), one r.frame_rx.try_recv() of the loop and its match arm
process_frame ==
    /\ cpc = "frames"
    /\ LET r == TryRecv(frameQ[comm], FrameTxAlive(comm))
       IN  CASE r.tag = "Ok" ->
                 /\ frameQ' = [frameQ EXCEPT ![comm] = Tail(@)]
                 /\ FoldFrame(r.val)
                 /\ labelled' = (labelled \/ r.val.tag = "Labels")
                 /\ UNCHANGED <<status, cpc, ret>>
             [] r.tag = "Empty" ->
                 /\ ret' = Some(PollDelayMs)
                 /\ cpc' = "status"
                 /\ UNCHANGED <<status, labels, data, frameQ, labelled>>
             [] r.tag = "Disconnected" ->
                 /\ status' = Disconnected
                 /\ cpc' = "status"
                 /\ UNCHANGED <<ret, labels, data, frameQ, labelled>>
    /\ UNCHANGED <<comm, result, workerVars, cmdQ, statusQ, reads, cmds, logcmds,
                   parserVars>>

\* self.comm = None: the consumer's endpoints are dropped, and with the
\* receivers whatever the frame and status channels still buffer
DropSession(w) ==
    /\ comm' = 0
    /\ frameQ' = [frameQ EXCEPT ![w] = <<>>]
    /\ statusQ' = [statusQ EXCEPT ![w] = <<>>]

\* (mutation of ApplyStopped: the status is applied, the session is kept)
ApplyStoppedKeepSession(s) ==
    /\ status' = s
    /\ statusQ' = [statusQ EXCEPT ![comm] = Tail(@)]
    /\ result' = None
    /\ UNCHANGED <<comm, frameQ>>

\* the arm Ok(s @ ReaderStatus::Stopped(_))
ApplyStopped(s) ==
    /\ status' = s
    /\ DropSession(comm)
    /\ result' = None

\* (mutation of ApplyStatus: every status received ends the session)
ApplyStatusDropping(s) ==
    /\ status' = s
    /\ DropSession(comm)
    /\ result' = None

\* the arms for Running, Logging and LogErr
ApplyStatus(s) ==
    /\ status' = s
    /\ statusQ' = [statusQ EXCEPT ![comm] = Tail(@)]
    /\ result' = ret
    /\ UNCHANGED <<comm, frameQ>>

\* process(), r.status_rx.try_recv() and the return
process_status ==
    /\ cpc = "status"
    /\ LET r == TryRecv(statusQ[comm], StatusTxAlive(comm))
       IN  CASE r.tag = "Ok" /\ r.val.tag = "Stopped" -> ApplyStopped(r.val)
             [] r.tag = "Ok" /\ r.val.tag /= "Stopped" -> ApplyStatus(r.val)
             [] r.tag = "Disconnected" ->
                 /\ status' = Disconnected
                 /\ DropSession(comm)
                 /\ result' = None
             [] r.tag = "Empty" ->
                 /\ result' = ret
                 /\ UNCHANGED <<comm, status, frameQ, statusQ>>
    /\ cpc' = "idle"
    /\ ret' = None
    /\ UNCHANGED <<labels, data, workerVars, cmdQ, envVars>>

\* a session slot no thread uses
FreeSlots == {w \in Sessions : wpc[w] = "none"}
NextSlot == CHOOSE w \in FreeSlots : \A v \in FreeSlots : w <= v

\* spawn_reader succeeding: three fresh channels and a new thread
spawn_reader(w) ==
    /\ wpc' = [wpc EXCEPT ![w] = "start"]
    /\ err_retry' = [err_retry EXCEPT ![w] = 0]
    /\ logger' = [logger EXCEPT ![w] = FALSE]
    /\ read_res' = [read_res EXCEPT ![w] = "none"]
    /\ cmdQ' = [cmdQ EXCEPT ![w] = <<>>]
    /\ frameQ' = [frameQ EXCEPT ![w] = <<>>]
    /\ statusQ' = [statusQ EXCEPT ![w] = <<>>]
    /\ comm' = w
    /\ labelled' = FALSE
    /\ UNCHANGED logfile

\* (mutation of start_reading: no check that comm is None)
start_reading_unguarded ==
    /\ cpc = "idle"
    /\ \/ /\ FreeSlots /= {}
          /\ spawn_reader(NextSlot)
          /\ UNCHANGED status
       \/ /\ status' = Stopped(Some("open failed"))
          /\ UNCHANGED <<comm, workerVars, chanVars, labelled>>
    /\ UNCHANGED <<labels, data, consumerVars, reads, cmds, logcmds, parserVars>>

\* start_reading(path, baud); the port opens or fails to open
start_reading ==
    /\ cpc = "idle"
    /\ IF comm = 0
       THEN \/ /\ FreeSlots /= {}
               /\ spawn_reader(NextSlot)
               /\ UNCHANGED status
            \/ /\ status' = Stopped(Some("open failed"))
               /\ UNCHANGED <<comm, workerVars, chanVars, labelled>>
       ELSE UNCHANGED <<comm, status, workerVars, chanVars, labelled>>
    /\ UNCHANGED <<labels, data, consumerVars, reads, cmds, logcmds, parserVars>>

\* (mutation of SendCommand: Stop takes effect on the Reader at once)
SendCommandEager(c) ==
    /\ cpc = "idle"
    /\ comm /= 0
    /\ IF c.tag = "Stop"
       THEN /\ cmds < MaxCmds
            /\ cmds' = cmds + 1
            /\ status' = Stopped(None)
            /\ UNCHANGED logcmds
       ELSE /\ logcmds < MaxLogCmds
            /\ logcmds' = logcmds + 1
            /\ UNCHANGED <<cmds, status>>
    /\ cmdQ' = [cmdQ EXCEPT ![comm] = Append(@, c)]
    /\ UNCHANGED <<comm, labels, data, consumerVars, workerVars, frameQ, statusQ,
                   reads, input, output, labelled>>

\* let _ = r.command_tx.send(c): buffered unless the receiver is gone
SendCommand(c) ==
    /\ cpc = "idle"
    /\ IF comm = 0
       THEN UNCHANGED <<cmdQ, cmds, logcmds>>
       ELSE /\ IF c = CmdStop
               THEN /\ cmds < MaxCmds
                    /\ cmds' = cmds + 1
                    /\ UNCHANGED logcmds
               ELSE /\ logcmds < MaxLogCmds
                    /\ logcmds' = logcmds + 1
                    /\ UNCHANGED cmds
            /\ IF CommandRxAlive(comm)
               THEN cmdQ' = [cmdQ EXCEPT ![comm] = Append(@, c)]
               ELSE UNCHANGED cmdQ
    /\ UNCHANGED <<readerVars, consumerVars, workerVars, frameQ, statusQ, reads,
                   parserVars, labelled>>

stop_reading == SendCommand(CmdStop)

start_logging(path) == SendCommand(CmdStartLogging(path))

stop_logging == SendCommand(CmdStopLogger)

(***************************************************************************)
(* reader_main (the worker thread of session w).                           *)
(***************************************************************************)
WorkerStep(w, pc, err, log, res) ==
    /\ wpc' = [wpc EXCEPT ![w] = pc]
    /\ err_retry' = [err_retry EXCEPT ![w] = err]
    /\ logger' = [logger EXCEPT ![w] = log]
    /\ read_res' = [read_res EXCEPT ![w] = res]

\* status_tx.send(s).expect(..): the send, then on to pc; a panic, which
\* unwinds the thread, when the consumer has dropped the receiver
EmitStatus(w, s, pc, err, log, res) ==
    IF ReceiversAlive(w)
    THEN /\ statusQ' = [statusQ EXCEPT ![w] = Append(@, s)]
         /\ WorkerStep(w, pc, err, log, res)
    ELSE /\ UNCHANGED statusQ
         /\ WorkerStep(w, "release", err, log, res)

\* entry of reader_main, up to the first status_tx.send(Running)
reader_main_start(w) ==
    /\ wpc[w] = "start"
    /\ EmitStatus(w, Running, "cmd", 0, FALSE, "none")
    /\ UNCHANGED <<readerVars, consumerVars, cmdQ, frameQ, logfile, envVars>>

\* (mutation of OnStop: the command is taken and the loop goes on)
OnStopIgnored(w) ==
    /\ WorkerStep(w, "read", err_retry[w], logger[w], "none")
    /\ UNCHANGED <<statusQ, logfile>>

\* (mutation of OnStop: Stopped(None) is sent and the loop goes on)
OnStopStays(w) ==
    /\ EmitStatus(w, Stopped(None), "read", err_retry[w], logger[w], "none")
    /\ UNCHANGED logfile

\* the arm Ok(Commands::Stop): flush, send Stopped(None), return
OnStop(w) ==
    /\ EmitStatus(w, Stopped(None), "release", err_retry[w], logger[w], "none")
    /\ UNCHANGED logfile

\* (mutation of OnStopLogger: a failed flush keeps the writer)
OnStopLoggerKeepsWriter(w) ==
    /\ IF ~logger[w]
       THEN /\ WorkerStep(w, "cmd", err_retry[w], logger[w], "none")
            /\ UNCHANGED statusQ
       ELSE \/ EmitStatus(w, Running, "read", err_retry[w], FALSE, "none")
            \/ EmitStatus(w, LogErr("flush failed"), "read", err_retry[w], TRUE, "none")
    /\ UNCHANGED logfile

\* (mutation of OnStopLogger: Running is reported whether or not a writer
\* was open)
OnStopLoggerAlways(w) ==
    /\ EmitStatus(w, Running, "read", err_retry[w], FALSE, "none")
    /\ UNCHANGED logfile

\* the arm Ok(Commands::StopLogger); the flush succeeds or fails
OnStopLogger(w) ==
    /\ IF ~logger[w]
       THEN /\ WorkerStep(w, "cmd", err_retry[w], logger[w], "none")
            /\ UNCHANGED statusQ
       ELSE \/ EmitStatus(w, Running, "read", err_retry[w], FALSE, "none")
            \/ EmitStatus(w, LogErr("flush failed"), "read", err_retry[w], FALSE, "none")
    /\ UNCHANGED logfile

\* the header row of the log
Header == <<"Sensor id", "Board id", "Read Time", "Time", "Value">>

\* (mutation of OnStartLogging: a log that cannot be started ends the
\* session)
OnStartLoggingFatal(w, path) ==
    IF logger[w]
    THEN /\ WorkerStep(w, "cmd", err_retry[w], logger[w], "none")
         /\ UNCHANGED <<statusQ, logfile>>
    ELSE IF ~Creatable(path)
         THEN /\ EmitStatus(w, Stopped(Some("create failed")), "release", err_retry[w],
                            FALSE, "none")
              /\ UNCHANGED logfile
         ELSE /\ EmitStatus(w, Logging, "read", err_retry[w], TRUE, "none")
              /\ logfile' = Some(<<Header>>)

\* the arm Ok(Commands::StartLogging(path)); creating the file fails for a
\* path that cannot be created and truncates the file otherwise; writing
\* the header row succeeds or fails.  A row counts as written once it is
\* handed to the csv writer.
OnStartLogging(w, path) ==
    IF logger[w]
    THEN /\ WorkerStep(w, "cmd", err_retry[w], logger[w], "none")
         /\ UNCHANGED <<statusQ, logfile>>
    ELSE IF ~Creatable(path)
         THEN /\ EmitStatus(w, LogErr("create failed"), "cmd", err_retry[w], FALSE, "none")
              /\ UNCHANGED logfile
         ELSE \/ /\ EmitStatus(w, LogErr("write failed"), "cmd", err_retry[w], FALSE, "none")
                 /\ logfile' = Some(<<>>)
              \/ /\ EmitStatus(w, Logging, "read", err_retry[w], TRUE, "none")
                 /\ logfile' = Some(<<Header>>)

\* the arms of `match command_rx.try_recv()` for a received command
OnCommand(w, c) ==
    CASE c.tag = "Stop" -> OnStop(w)
      [] c.tag = "StopLogger" -> OnStopLogger(w)
      [] c.tag = "StartLogging" -> OnStartLogging(w, c.path)

\* one iteration's command_rx.try_recv() and its match arm
reader_main_command(w) ==
    /\ wpc[w] = "cmd"
    /\ LET r == TryRecv(cmdQ[w], comm = w)
       IN  CASE r.tag = "Ok" ->
                 /\ cmdQ' = [cmdQ EXCEPT ![w] = Tail(@)]
                 /\ OnCommand(w, r.val)
             [] r.tag = "Empty" ->
                 /\ WorkerStep(w, "read", err_retry[w], logger[w], "none")
                 /\ UNCHANGED <<cmdQ, statusQ, logfile>>
             [] r.tag = "Disconnected" ->
                 \* panic!("Main Thread dropped command sender")
                 /\ WorkerStep(w, "release", err_retry[w], logger[w], "none")
                 /\ UNCHANGED <<cmdQ, statusQ, logfile>>
    /\ UNCHANGED <<readerVars, consumerVars, frameQ, envVars>>

\* the arm Ok(f): reset the counter, forward the record
OnFrame(w, f) ==
    IF ReceiversAlive(w)
    THEN /\ frameQ' = [frameQ EXCEPT ![w] = Append(@, f)]
         /\ WorkerStep(w, "cmd", 0, logger[w], "Ok")
    ELSE /\ UNCHANGED frameQ
         /\ WorkerStep(w, "release", 0, logger[w], "Ok")

\* (mutation of OnTimeout: no `continue`, the timeout falls through to
\* the error count)
OnTimeoutCounted(w) ==
    LET n == err_retry[w] + 1
    IN  IF n > ErrThreshold
        THEN EmitStatus(w, Stopped(Some("timed out")), "release", n, logger[w], "TimedOut")
        ELSE /\ WorkerStep(w, "cmd", n, logger[w], "TimedOut")
             /\ UNCHANGED statusQ

\* the arm io::ErrorKind::TimedOut: `waiting` is true, so `continue`
OnTimeout(w) ==
    /\ WorkerStep(w, "cmd", err_retry[w], logger[w], "TimedOut")
    /\ UNCHANGED statusQ

\* (mutation of Escalates: off by one)
EscalatesEarly(n) == n >= ErrThreshold

\* `if err_retry > 3`
Escalates(n) == n > ErrThreshold

\* any other read error: count it; past the threshold send Stopped and panic
OnReadError(w) ==
    LET n == err_retry[w] + 1
    IN  IF Escalates(n)
        THEN EmitStatus(w, Stopped(Some("read error")), "release", n, logger[w], "Err")
        ELSE /\ WorkerStep(w, "cmd", n, logger[w], "Err")
             /\ UNCHANGED statusQ

\* one iteration's reader.next_frame() and its match arm; Frames are the
\* records next_frame makes of the lines the device delivers
reader_main_read(w, Frames, maxReads, faulty) ==
    /\ wpc[w] = "read"
    /\ \/ \E f \in Frames :
            /\ reads < maxReads
            /\ reads' = reads + 1
            /\ OnFrame(w, f)
            /\ UNCHANGED statusQ
       \/ /\ OnTimeout(w)
          /\ UNCHANGED <<frameQ, reads>>
       \/ /\ faulty
          /\ OnReadError(w)
          /\ UNCHANGED <<frameQ, reads>>
    /\ UNCHANGED <<readerVars, consumerVars, cmdQ, logfile, cmds, logcmds, parserVars,
                   labelled>>

\* leaving reader_main (return or unwinding), first part: the locals are
\* dropped, the log writer and the FrameReader that owns the port, and then
\* the last parameter, command_rx
reader_main_release(w) ==
    /\ wpc[w] = "release"
    /\ WorkerStep(w, "dropTx", 0, FALSE, "none")
    /\ cmdQ' = [cmdQ EXCEPT ![w] = <<>>]
    /\ UNCHANGED <<readerVars, consumerVars, frameQ, statusQ, logfile, envVars>>

\* second part: status_tx and frame_tx are dropped and the thread is gone.
\* (Between the two drops the consumer could tell the difference only on
\* an empty status channel, and the worker has left Stopped there.)
reader_main_drop_tx(w) ==
    /\ wpc[w] = "dropTx"
    /\ WorkerStep(w, "none", 0, FALSE, "none")
    /\ UNCHANGED <<readerVars, consumerVars, chanVars, logfile, envVars>>

(***************************************************************************)
(* The system.                                                             *)
(***************************************************************************)
Init ==
    /\ comm = 0
    /\ status = DefaultStatus
    /\ labels = <<>>
    /\ data = EmptyMap
    /\ cpc = "idle"
    /\ ret = None
    /\ result = NoCall
    /\ wpc = [w \in Sessions |-> "none"]
    /\ err_retry = [w \in Sessions |-> 0]
    /\ logger = [w \in Sessions |-> FALSE]
    /\ read_res = [w \in Sessions |-> "none"]
    /\ cmdQ = [w \in Sessions |-> <<>>]
    /\ frameQ = [w \in Sessions |-> <<>>]
    /\ statusQ = [w \in Sessions |-> <<>>]
    /\ logfile = None
    /\ reads = 0
    /\ cmds = 0
    /\ logcmds = 0
    /\ labelled = FALSE
    /\ input = <<>>
    /\ output = None

\* The parser alone: a line is given, and try_from is called on it.
ParseInit ==
    /\ comm = 0
    /\ status = DefaultStatus
    /\ labels = <<>>
    /\ data = EmptyMap
    /\ cpc = "idle"
    /\ ret = None
    /\ result = NoCall
    /\ wpc = [w \in Sessions |-> "none"]
    /\ err_retry = [w \in Sessions |-> 0]
    /\ logger = [w \in Sessions |-> FALSE]
    /\ read_res = [w \in Sessions |-> "none"]
    /\ cmdQ = [w \in Sessions |-> <<>>]
    /\ frameQ = [w \in Sessions |-> <<>>]
    /\ statusQ = [w \in Sessions |-> <<>>]
    /\ logfile = None
    /\ reads = 0
    /\ cmds = 0
    /\ logcmds = 0
    /\ labelled = FALSE
    /\ input \in ParseLines
    /\ output = None

try_from_call ==
    /\ output = None
    /\ output' = Some(try_from(input))
    /\ UNCHANGED <<readerVars, consumerVars, workerVars, chanVars, reads, cmds,
                   logcmds, input, labelled>>

ParseNext == try_from_call

ParseSpec == ParseInit /\ [][ParseNext]_vars

ReaderOps ==
    \/ process_begin
    \/ process_frame
    \/ process_status
    \/ start_reading
    \/ stop_reading

LoggingOps ==
    \/ \E p \in Paths : start_logging(p)
    \/ stop_logging

Worker(w, Frames, maxReads, faulty) ==
    \/ reader_main_start(w)
    \/ reader_main_command(w)
    \/ reader_main_read(w, Frames, maxReads, faulty)
    \/ reader_main_release(w)
    \/ reader_main_drop_tx(w)

\* Sessions of a consumer that starts, stops and polls, with a device that
\* delivers the lines of ProtocolLines.
Next == ReaderOps \/ \E w \in Sessions : Worker(w, ProtocolFrames, MaxReads, TRUE)

Spec == Init /\ [][Next]_vars

\* The same with a device that delivers the lines of DeviceLines, and whose
\* reads succeed or time out.
DataNext == ReaderOps \/ \E w \in Sessions : Worker(w, DeviceFrames, MaxDataReads, FALSE)

DataSpec == Init /\ [][DataNext]_vars

\* The same with a device that delivers the lines of RowLines.
RowNext == ReaderOps \/ \E w \in Sessions : Worker(w, RowFrames, MaxDataReads, FALSE)

RowSpec == Init /\ [][RowNext]_vars

\* Sessions of a consumer that also starts and stops the log, with a device
\* whose reads succeed or time out.
LogNext ==
    \/ ReaderOps
    \/ LoggingOps
    \/ \E w \in Sessions : Worker(w, ProtocolFrames, MaxReads, FALSE)

LogSpec == Init /\ [][LogNext]_vars

TypeOK ==
    /\ comm \in 0..MaxSessions
    /\ cpc \in {"idle", "frames", "status"}
    /\ (cpc /= "idle" => comm /= 0)
    /\ \A w \in Sessions : wpc[w] \in WorkerPcs /\ err_retry[w] \in 0..(ErrThreshold + 1)
    /\ reads \in 0..MaxDataReads
    /\ cmds \in 0..MaxCmds
    /\ logcmds \in 0..MaxLogCmds
    /\ labelled \in BOOLEAN
    /\ logfile \in {None, Some(<<>>), Some(<<Header>>)}

\* The consumer polls for ever and every thread that can run does: the
\* process() call in progress advances, and so does each worker, whose
\* blocking read returns within its timeout.
FairSpec ==
    /\ Spec
    /\ WF_vars(process_begin)
    /\ WF_vars(process_frame)
    /\ WF_vars(process_status)
    /\ \A w \in Sessions : WF_vars(Worker(w, ProtocolFrames, MaxReads, TRUE))

(***************************************************************************)
(* Properties.                                                             *)
(***************************************************************************)
IsStopped(s) == s.tag = "Stopped"

\* a Stop is buffered for the worker of the live session w, or that worker
\* has already left its loop
StopRequested(w) ==
    /\ comm = w
    /\ \/ \E i \in 1..Len(cmdQ[w]) : cmdQ[w][i] = CmdStop
       \/ wpc[w] \notin {"start", "cmd", "read"}

\* process() has returned None with the session dropped and status Stopped
StoppedAndDropped ==
    /\ cpc = "idle"
    /\ comm = 0
    /\ IsStopped(status)
    /\ result = None

\* C1: once stop_reading() has sent Stop in a live session, a consumer that
\* keeps calling process() eventually finds status Stopped with process()
\* returning None and the session dropped; and while no session is present
\* no step changes Reader.data or Reader.labels.
C1_StopEventuallyStops ==
    /\ \A w \in Sessions : StopRequested(w) ~> StoppedAndDropped
    /\ [][(comm = 0 /\ comm' = 0) => UNCHANGED <<data, labels>>]_vars

C1_Witness ==
    /\ StoppedAndDropped
    /\ status = Stopped(None)
    /\ cmds > 0
    /\ labels /= <<>>

\* a session whose worker has left its loop has Stopped as the last status
\* buffered, so the consumer never finds the status channel disconnected
SessionEndsWithStopped ==
    \A w \in Sessions :
        (comm = w /\ wpc[w] \notin {"start", "cmd", "read"}) =>
            /\ statusQ[w] /= <<>>
            /\ IsStopped(statusQ[w][Len(statusQ[w])])

\* C2: when process() drops the session on a Stopped status, no record the
\* worker has sent is left unfolded on the frame channel.
C2_NoFrameLost ==
    [][\A w \in Sessions : (comm = w /\ comm' = 0) => frameQ[w] = <<>>]_vars

\* the return of a process() call that went through both channels
ProcessReturns == cpc = "status" /\ cpc' = "idle"

\* C3: a process() call consumes every status buffered when it polls the
\* status channel and leaves Reader.status equal to the last of them.
C3_StatusDrained ==
    [][(ProcessReturns /\ statusQ[comm] /= <<>>) =>
          /\ status' = statusQ[comm][Len(statusQ[comm])]
          /\ \A w \in Sessions : statusQ'[w] = <<>> \/ w /= comm]_vars

\* C4: process() returns None only with status Stopped and no session on
\* return; with the session still present and the frame channel found
\* empty it returns Some(100 ms).
C4_ReturnValue ==
    [][(ProcessReturns \/ (process_begin /\ comm = 0)) =>
          /\ (result' = None => IsStopped(status') /\ comm' = 0)
          /\ ((comm' /= 0 /\ ret = Some(PollDelayMs)) => result' = Some(PollDelayMs))]_vars

\* the call has assigned Reader.status: in the frame loop's Disconnected
\* arm (ret is still None) or in an arm of the status match
AssignsStatus ==
    \/ ret = None
    \/ TryRecv(statusQ[comm], StatusTxAlive(comm)).tag /= "Empty"

\* C5: a process() call that leaves Reader.status at a Stopped value it has
\* set returns with Reader.comm None.
C5_StoppedDropsSession ==
    [][(ProcessReturns /\ AssignsStatus /\ IsStopped(status')) => comm' = 0]_vars

C5_Witness ==
    /\ StoppedAndDropped
    /\ status = Stopped(Some("read error"))

\* C6: a successful read resets the error counter, every other read error
\* increments it; up to the threshold the worker emits nothing and loops,
\* past it the worker emits Stopped(Some(reason)), reason non-empty, and
\* terminates.
C6_ErrorEscalation ==
    [][\A w \in Sessions :
          (wpc[w] = "read" /\ wpc'[w] /= "read") =>
             /\ (read_res'[w] = "Ok" => err_retry'[w] = 0)
             /\ (read_res'[w] = "Err" =>
                   /\ err_retry'[w] = err_retry[w] + 1
                   /\ IF err_retry'[w] <= ErrThreshold
                      THEN /\ statusQ' = statusQ
                           /\ wpc'[w] = "cmd"
                      ELSE /\ err_retry'[w] = ErrThreshold + 1
                           /\ \E r \in {"read error"} :
                                 /\ r /= ""
                                 /\ statusQ'[w] = Append(statusQ[w], Stopped(Some(r)))
                           /\ wpc'[w] = "release")]_vars

C6_Witness ==
    \E w \in Sessions :
        /\ wpc[w] = "release"
        /\ read_res[w] = "Err"
        /\ err_retry[w] = ErrThreshold + 1
        /\ statusQ[w] /= <<>>
        /\ statusQ[w][Len(statusQ[w])] = Stopped(Some("read error"))

\* C7: a read timeout leaves the error counter alone, emits no status and
\* takes the worker back to the command check.
C7_TimeoutIsNoError ==
    [][\A w \in Sessions :
          (wpc[w] = "read" /\ read_res'[w] = "TimedOut") =>
             /\ err_retry'[w] = err_retry[w]
             /\ statusQ' = statusQ
             /\ frameQ' = frameQ
             /\ wpc'[w] = "cmd"]_vars

C7_Witness ==
    \E w \in Sessions :
        /\ wpc[w] = "cmd"
        /\ read_res[w] = "TimedOut"
        /\ err_retry[w] = ErrThreshold
        /\ \A i \in 1..Len(statusQ[w]) : ~IsStopped(statusQ[w][i])

\* C8: start_reading() with a session present changes nothing: no thread,
\* no channel, and comm, status, labels and data as they were.
C8_StartWhileActiveIsNoOp ==
    [][(start_reading /\ comm /= 0) =>
          UNCHANGED <<comm, status, labels, data, wpc, cmdQ, frameQ, statusQ>>]_vars

C8_Witness ==
    /\ cpc = "idle"
    /\ comm /= 0
    /\ wpc[comm] = "read"
    /\ FreeSlots /= {}

\* C9: at most one worker thread that has not yet released the device
\* exists at any time.
C9_OneWorker == Cardinality({w \in Sessions : OwnsDevice(w)}) <= 1

\* the series of label k in d, empty when d has no entry for k
Series(d, k) == IF k \in DOMAIN d THEN d[k] ELSE <<>>

\* process() folds a Values record that has one reading for each of the
\* current labels, which a Labels record has set
FoldsMatchingValues ==
    /\ cpc = "frames"
    /\ frameQ[comm] /= <<>>
    /\ Head(frameQ[comm]).tag = "Values"
    /\ labels /= <<>>
    /\ Len(Head(frameQ[comm]).val) = Len(labels) + 1
    /\ frameQ'[comm] = Tail(frameQ[comm])

\* every series named by a label gains the one pair (t, ri) at its end
OnePairPerLabel ==
    LET v == Head(frameQ[comm]).val
    IN  \A i \in 1..Len(labels) :
            /\ labels[i] \in DOMAIN data'
            /\ data'[labels[i]] = Append(Series(data, labels[i]), <<v[1], v[i + 1]>>)

DistinctLabels == \A i, j \in 1..Len(labels) : labels[i] = labels[j] => i = j

\* C10 (as claimed): after a Labels record with n names, folding a Values
\* record with n + 1 integers appends exactly the pair (t, ri) to the
\* series of label i, for every i.
C10_OnePairPerLabel == [][FoldsMatchingValues => OnePairPerLabel]_vars

\* C10 (amended): the same, for a Labels record whose n names are pairwise
\* distinct; and no other series changes.
C10_OnePairPerDistinctLabel ==
    [][(FoldsMatchingValues /\ DistinctLabels) =>
          /\ OnePairPerLabel
          /\ DOMAIN data' = DOMAIN data \cup {labels[i] : i \in 1..Len(labels)}
          /\ labels' = labels]_vars

\* two Values records folded after Labels(a, b), the later timestamp first
C10_Witness ==
    /\ labels = << <<"a">>, <<"b">> >>
    /\ DOMAIN data = {<<"a">>, <<"b">>}
    /\ data[<<"a">>] = << <<2, 7>>, <<1, 5>> >>
    /\ data[<<"b">>] = << <<2, 8>>, <<1, 6>> >>

\* process() folds a Values record
FoldsValues ==
    /\ cpc = "frames"
    /\ frameQ[comm] /= <<>>
    /\ Head(frameQ[comm]).tag = "Values"
    /\ frameQ'[comm] = Tail(frameQ[comm])

\* C11: folding a Values record whose number of readings differs from the
\* number of current labels modifies no series of Reader.data.
C11_MismatchLeavesData ==
    [][(FoldsValues /\ Len(Head(frameQ[comm]).val) - 1 /= Len(labels)) =>
          data' = data]_vars

\* C12: Reader.labels is empty exactly until the first Labels record is
\* folded, and for as long as it is empty Reader.data is empty: a Values
\* record folded before any Labels record appends nothing.
C12_NoLabelsNoData ==
    /\ [](labels = <<>> => data = EmptyMap)
    /\ [][labels /= <<>> => labels' /= <<>>]_vars
    /\ [][(FoldsValues /\ labels = <<>>) => (data' = EmptyMap /\ labels' = <<>>)]_vars

\* the worker of the live session has forwarded a record, which is a Values
\* record as it left the labels empty, and process() has folded it
C12_Witness ==
    /\ comm /= 0
    /\ wpc[comm] = "cmd"
    /\ read_res[comm] = "Ok"
    /\ frameQ[comm] = <<>>
    /\ cpc = "status"
    /\ labels = <<>>
    /\ data = EmptyMap

\* C13: a record read successfully while the log writer is open is written
\* to the log as one more row, so that the rows of the log follow the
\* records forwarded on the frame channel.
C13_LogsWhatItForwards ==
    [][\A w \in Sessions :
          (wpc[w] = "read" /\ logger[w] /\ read_res'[w] = "Ok") =>
             /\ logfile /= None
             /\ logfile' /= None
             /\ Len(logfile'[1]) = Len(logfile[1]) + 1]_vars

\* the worker of session w sends a status in this step
Emits(w) == Len(statusQ'[w]) = Len(statusQ[w]) + 1
LastEmitted(w) == statusQ'[w][Len(statusQ'[w])]

\* the worker is in its loop: at the command check or at the read
InLoop(pc) == pc \in {"cmd", "read"}

\* C14: in the loop the log writer is open exactly when the last status the
\* worker has sent is Logging: a step that sends a status and stays in the
\* loop leaves the writer open iff the status is Logging, a step that sends
\* none leaves the writer as it was; and a step that sends LogErr leaves
\* the writer closed and the worker in its loop, with no Stopped sent.
C14_LoggerTracksStatus ==
    /\ [](\A w \in Sessions :
            (InLoop(wpc[w]) /\ statusQ[w] /= <<>>) =>
                (logger[w] <=> statusQ[w][Len(statusQ[w])] = Logging))
    /\ [][\A w \in Sessions :
            /\ (Emits(w) /\ InLoop(wpc'[w])) =>
                  (logger'[w] <=> LastEmitted(w) = Logging)
            /\ (Emits(w) /\ LastEmitted(w).tag = "LogErr") =>
                  (~logger'[w] /\ InLoop(wpc'[w]))
            /\ (~Emits(w) /\ InLoop(wpc[w]) /\ InLoop(wpc'[w])) =>
                  logger'[w] = logger[w]]_vars

\* the log was started and its writer closed by a StopLogger whose flush
\* failed
C14_Witness ==
    \E w \in Sessions :
        /\ InLoop(wpc[w])
        /\ ~logger[w]
        /\ statusQ[w] = <<Running, Logging, LogErr("flush failed")>>

\* the worker of session w takes a StartLogging command with no writer
\* open, and the log is not started
StartLoggingFails(w) ==
    /\ wpc[w] = "cmd"
    /\ cmdQ[w] /= <<>>
    /\ Head(cmdQ[w]).tag = "StartLogging"
    /\ cmdQ'[w] = Tail(cmdQ[w])
    /\ ~logger[w]
    /\ logfile' /= Some(<<Header>>) \/ ~Creatable(Head(cmdQ[w]).path)

\* C15: a StartLogging that fails sends LogErr and nothing else, leaves the
\* writer closed and the worker in its loop; and a process() call that
\* applies a LogErr leaves the Reader running with its session.
C15_LogErrKeepsSession ==
    /\ [][\A w \in Sessions :
            StartLoggingFails(w) =>
               /\ Emits(w)
               /\ LastEmitted(w).tag = "LogErr"
               /\ ~logger'[w]
               /\ wpc'[w] = "cmd"
               /\ frameQ' = frameQ]_vars
    /\ [][(ProcessReturns /\ status'.tag = "LogErr") =>
            /\ running'
            /\ comm' = comm
            /\ comm' /= 0]_vars

C15_Witness ==
    /\ cpc = "idle"
    /\ status = LogErr("create failed")
    /\ running
    /\ comm /= 0
    /\ InLoop(wpc[comm])
    /\ ~logger[comm]

\* the worker of session w takes a StartLogging with the writer open, or a
\* StopLogger with no writer open
DuplicateLogCommand(w) ==
    /\ wpc[w] = "cmd"
    /\ cmdQ[w] /= <<>>
    /\ cmdQ'[w] = Tail(cmdQ[w])
    /\ \/ Head(cmdQ[w]).tag = "StartLogging" /\ logger[w]
       \/ Head(cmdQ[w]).tag = "StopLogger" /\ ~logger[w]

\* C16: such a command sends no status and leaves the writer, the log file
\* and the error counter as they were; the worker takes its next command.
C16_DuplicateIsNoOp ==
    [][\A w \in Sessions :
          DuplicateLogCommand(w) =>
             /\ UNCHANGED <<statusQ, frameQ, logger, logfile, err_retry>>
             /\ wpc'[w] = "cmd"]_vars

\* two logging commands taken in the first session, one of them a
\* duplicate: only Running and Logging were sent
C16_Witness ==
    \E w \in Sessions :
        /\ comm = w
        /\ status = DefaultStatus
        /\ cmds = 0
        /\ logcmds = MaxLogCmds
        /\ cmdQ[w] = <<>>
        /\ wpc[w] = "cmd"
        /\ logger[w]
        /\ logfile = Some(<<Header>>)
        /\ statusQ[w] = <<Running, Logging>>

\* a call of stop_reading, start_logging or stop_logging
CommandCall ==
    \/ stop_reading
    \/ stop_logging
    \/ \E p \in Paths : start_logging(p)
    \/ cmds' /= cmds
    \/ logcmds' /= logcmds

\* C17: stop_reading, start_logging and stop_logging leave status, comm,
\* labels and data alone; without a session they send nothing, with one
\* they at most append their command to its command channel; and status
\* turns Stopped only in a process() call.
C17_CommandsOnlyEnqueue ==
    /\ [][CommandCall =>
            /\ UNCHANGED <<status, comm, labels, data, frameQ, statusQ>>
            /\ \A w \in Sessions :
                  \/ cmdQ'[w] = cmdQ[w]
                  \/ /\ w = comm
                     /\ \E c \in {CmdStop, CmdStopLogger} \cup
                                  {CmdStartLogging(p) : p \in Paths} :
                           cmdQ'[w] = Append(cmdQ[w], c)]_vars
    /\ [][(~IsStopped(status) /\ IsStopped(status')) => cpc \in {"frames", "status"}]_vars

\* Stop is buffered for the worker and the Reader still reports Running
C17_Witness ==
    /\ comm /= 0
    /\ cmds = 1
    /\ cmdQ[comm] = <<CmdStop>>
    /\ status = Running
    /\ cpc = "idle"

\* What a line is, stated from its characters.
EndsWithCrLf(l) == Len(l) >= 2 /\ l[Len(l) - 1] = "\r" /\ l[Len(l)] = "\n"

\* the characters from..to of l
Part(l, from, to) == [i \in 1..(to - from + 1) |-> l[from + i - 1]]

\* the positions of b at which sep occurs (no two occurrences of ";" " " or
\* of " " overlap)
SepAt(b, sep) ==
    {i \in 1..(Len(b) - Len(sep) + 1) : \A j \in 1..Len(sep) : b[i + j - 1] = sep[j]}

\* the parts of b between the occurrences of sep, one more than occurrences
Pieces(b, sep) ==
    LET at == SepAt(b, sep)
        n == Cardinality(at)
        pos(j) == CHOOSE q \in at : Cardinality({r \in at : r < q}) = j - 1
        from(k) == IF k = 1 THEN 1 ELSE pos(k - 1) + Len(sep)
        to(k) == IF k = n + 1 THEN Len(b) ELSE pos(k) - 1
    IN  [k \in 1..(n + 1) |-> Part(b, from(k), to(k))]

\* tok without its sign, and without the zeros it starts with
Unsigned(tok) ==
    IF tok /= <<>> /\ tok[1] \in {"+", "-"} THEN Part(tok, 2, Len(tok)) ELSE tok

Significant(ds) ==
    LET zeros == Cardinality({i \in 1..Len(ds) : \A j \in 1..i : ds[j] = "0"})
    IN  Part(ds, zeros + 1, Len(ds))

\* the decimal digits of 2^31 - 1 and of 2^31
MaxPositive == <<2, 1, 4, 7, 4, 8, 3, 6, 4, 7>>
MaxNegative == <<2, 1, 4, 7, 4, 8, 3, 6, 4, 8>>

\* a <= b for digit strings of one length
DigitsLeq(a, b) ==
    \/ \A i \in 1..Len(a) : DigitVal(a[i]) = b[i]
    \/ \E i \in 1..Len(a) :
          /\ DigitVal(a[i]) < b[i]
          /\ \A j \in 1..(i - 1) : DigitVal(a[j]) = b[j]

\* tok is the decimal notation of a 32-bit integer: an optional sign, one
\* digit or more, and a value from -2^31 to 2^31 - 1
IsI32(tok) ==
    LET ds == Unsigned(tok)
        sg == Significant(ds)
    IN  /\ ds /= <<>>
        /\ \A i \in 1..Len(ds) : ds[i] \in Digits
        /\ \/ Len(sg) < 10
           \/ /\ Len(sg) = 10
              /\ DigitsLeq(sg, IF tok[1] = "-" THEN MaxNegative ELSE MaxPositive)

RECURSIVE SumTo(_, _)
SumTo(f, n) == IF n = 0 THEN 0 ELSE SumTo(f, n - 1) + f[n]

\* the integer tok denotes, for a tok that IsI32
IntOf(tok) ==
    LET sg == Significant(Unsigned(tok))
        n == Len(sg)
        sign == IF tok[1] = "-" THEN 0 - 1 ELSE 1
    IN  SumTo([i \in 1..n |-> sign * DigitVal(sg[i]) * 10 ^ (n - i)], n)

Classify(l) ==
    IF ~EndsWithCrLf(l) THEN [tag |-> "Other", val |-> <<>>]
    ELSE LET b == Part(l, 1, Len(l) - 2)
         IN  IF Len(b) >= 3 /\ b[1] = "#" /\ b[2] = "L" /\ b[3] = " "
             THEN [tag |-> "Labels", val |-> Pieces(Part(b, 4, Len(b)), <<";", " ">>)]
             ELSE LET toks == Pieces(b, <<" ">>)
                  IN  IF \A k \in 1..Len(toks) : IsI32(toks[k])
                      THEN [tag |-> "Values",
                            val |-> [k \in 1..Len(toks) |-> IntOf(toks[k])]]
                      ELSE [tag |-> "Other", val |-> <<>>]

\* C18: try_from returns a record for every line: Other for a line that
\* does not end in "\r\n"; else, of the line without the terminator, Labels
\* of what follows "#L " split on "; "; else Values of the integers its
\* tokens between spaces denote, when each of them is a 32-bit integer;
\* else Other.
C18_ParserClassifies ==
    output /= None =>
        LET rec == output[1]
            is == Classify(input)
        IN  /\ rec.tag \in {"Labels", "Values", "Other"}
            /\ rec.tag = is.tag
            /\ rec.tag /= "Other" => rec.val = is.val

\* a line whose second token is no integer is Other as a whole
C18_Witness ==
    /\ input = <<"7", " ", "-", "\r", "\n">>
    /\ output = Some(Other(<<"7", " ", "-">>))

\* every series of d is in e, with the pairs it has in d at its start
Keeps(d, e) ==
    \A k \in DOMAIN d :
        /\ k \in DOMAIN e
        /\ Len(e[k]) >= Len(d[k])
        /\ SubSeq(e[k], 1, Len(d[k])) = d[k]

\* process() folds a Labels record
FoldsLabels ==
    /\ cpc = "frames"
    /\ frameQ[comm] /= <<>>
    /\ Head(frameQ[comm]).tag = "Labels"
    /\ frameQ'[comm] = Tail(frameQ[comm])

\* C19: a step that takes anything out of Reader.data is process() folding
\* a Labels record, and it empties the map; start_reading, stop_reading
\* and the start and the end of a session leave Reader.data as it is.
C19_OnlyLabelsClearData ==
    /\ [][~Keeps(data, data') => (FoldsLabels /\ data' = EmptyMap)]_vars
    /\ [][(start_reading \/ stop_reading \/ comm' /= comm) => data' = data]_vars

\* a new session has started, its worker has sent nothing yet, and the
\* data of the session before is there
C19_Witness ==
    /\ comm /= 0
    /\ wpc[comm] = "start"
    /\ statusQ[comm] = <<>>
    /\ IsStopped(status)
    /\ data /= EmptyMap

\* the call has found the frame channel disconnected (ret is still None on
\* the way to the status channel) or finds the status channel disconnected
FindsDisconnected ==
    \/ ret = None
    \/ TryRecv(statusQ[comm], StatusTxAlive(comm)).tag = "Disconnected"

\* C20: a process() call that finds the frame channel or the status
\* channel disconnected returns with Reader.status a Stopped value.
C20_DisconnectIsStopped ==
    [][(ProcessReturns /\ FindsDisconnected) => IsStopped(status')]_vars

\* C21: the worker of a session sends Running first and enters its loop
\* only after that; a Stopped is the last thing it sends: with it the
\* worker leaves its loop, and out of its loop it sends no status and no
\* record; Stopped(None) is sent on taking a Stop command and
\* Stopped(Some(reason)) on a read error past the threshold, and on
\* nothing else.
C21_StatusSequence ==
    /\ [](\A w \in Sessions : \A i \in 1..Len(statusQ[w]) :
            IsStopped(statusQ[w][i]) => i = Len(statusQ[w]))
    /\ [][\A w \in Sessions :
            /\ (wpc[w] = "start" /\ Emits(w)) => LastEmitted(w) = Running
            /\ (wpc[w] = "start" /\ InLoop(wpc'[w])) => Emits(w)
            /\ (Emits(w) /\ IsStopped(LastEmitted(w))) => wpc'[w] = "release"
            /\ wpc[w] \in {"release", "dropTx", "none"} =>
                  /\ ~Emits(w)
                  /\ Len(frameQ'[w]) <= Len(frameQ[w])
            /\ (Emits(w) /\ LastEmitted(w) = Stopped(None)) =>
                  /\ wpc[w] = "cmd"
                  /\ cmdQ[w] /= <<>>
                  /\ Head(cmdQ[w]) = CmdStop
                  /\ cmdQ'[w] = Tail(cmdQ[w])
            /\ (Emits(w) /\ IsStopped(LastEmitted(w)) /\ LastEmitted(w) /= Stopped(None)) =>
                  /\ wpc[w] = "read"
                  /\ read_res'[w] = "Err"
                  /\ err_retry'[w] > ErrThreshold]_vars

\* the worker has gone after a read error past the threshold, and has left
\* Running and then Stopped with its reason for the consumer
C21_Witness ==
    \E w \in Sessions :
        /\ comm = w
        /\ wpc[w] = "none"
        /\ statusQ[w] = <<Running, Stopped(Some("read error"))>>

\* C22: in a session in which process() has not yet met a Labels record,
\* folding a Values record modifies no series of Reader.data; in particular
\* the readings are not filed under the labels an earlier session has left.
C22_UnlabelledValuesDropped ==
    [][(FoldsValues /\ ~labelled) => data' = data]_vars

\* C23: whenever the session handle comm is None, status is a Stopped
\* value; equivalently, whenever running() or logging() returns true a
\* session handle is present.
C23_NoSessionIsStopped ==
    /\ comm = 0 => IsStopped(status)
    /\ (running \/ logging) => comm /= 0

\* a session that has logged was stopped and its handle dropped
C23_Witness ==
    /\ comm = 0
    /\ cpc = "idle"
    /\ status = Stopped(None)
    /\ ~running
    /\ cmds = 1
    /\ logfile = Some(<<Header>>)

\* the names in Reader.labels
LabelNames == {labels[i] : i \in 1..Len(labels)}

\* in this step the series k keeps its pairs and gains, at its end, only
\* pairs (t, r) of the Values record v whose reading r is zipped with label k
GainsFrom(k, v) ==
    LET old == Series(data, k)
        new == data'[k]
    IN  /\ Len(new) >= Len(old)
        /\ SubSeq(new, 1, Len(old)) = old
        /\ \A i \in (Len(old) + 1)..Len(new) :
               \E j \in 1..Len(labels) :
                   /\ j + 1 <= Len(v)
                   /\ labels[j] = k
                   /\ new[i] = <<v[1], v[j + 1]>>

\* C24: every key of Reader.data is a name in the current Reader.labels,
\* and every series holds only pairs of Values records folded after the
\* most recent Labels record: labels and data change only when process()
\* folds a Labels record, which installs its names and empties the data, or
\* a Values record, which keeps the labels and appends its own pairs.
C24_DataFollowsLabels ==
    /\ [](DOMAIN data \subseteq LabelNames)
    /\ [][(labels' /= labels \/ data' /= data) =>
            \/ /\ FoldsLabels
               /\ labels' = Head(frameQ[comm]).val
               /\ data' = EmptyMap
            \/ /\ FoldsValues
               /\ labels' = labels
               /\ \A k \in DOMAIN data' : GainsFrom(k, Head(frameQ[comm]).val)]_vars

\* a Values record folded under a label set that names one series twice
C24_Witness ==
    /\ labels = << <<"a">>, <<"a">> >>
    /\ DOMAIN data = {<<"a">>}
    /\ data[<<"a">>] = << <<2, 7>>, <<2, 8>> >>

\* C25: every Values record SerialData::try_from produces holds at least
\* one integer, and so does every Values record on a frame channel, so
\* that v[0] in process() is within bounds.
C25_ValuesNotEmpty ==
    /\ (output /= None /\ output[1].tag = "Values") => Len(output[1].val) >= 1
    /\ \A w \in Sessions : \A i \in 1..Len(frameQ[w]) :
           frameQ[w][i].tag = "Values" => Len(frameQ[w][i].val) >= 1

\* the shortest line that is a Values record: one integer of one digit
C25_Witness ==
    /\ input = <<"7", "\r", "\n">>
    /\ output = Some(Values(<<7>>))

====
